---- MODULE Spec2Model ----
(***************************************************************************)
(* Model of the Monte Carlo engine of src/src/App.js (component Dashboard):*)
(* the memo cells simulations, stats, distribution, trajectory and scatter *)
(* and the one event that changes them, the scenario selector.             *)
(*                                                                         *)
(* Numbers.  JavaScript numbers are IEEE-754 doubles.  The model keeps     *)
(* them as fixed-point integers:                                           *)
(*   npv and every value statistic         in tenths       (89.4 -> 894)   *)
(*   ms (retention)                        in thousandths  (0.749 -> 749)  *)
(*   growth factors                        in hundredths   (0.15 -> 15)    *)
(* and keeps the two things of a double that the code's results depend on: *)
(* the special values Infinity and NaN, and the rounding of every partial  *)
(* sum of an accumulation (operator fadd), here to MantBits significant    *)
(* bits instead of 53.                                                     *)
(***************************************************************************)
EXTENDS Integers, Sequences, FiniteSets, TLC

\* ------------------------------------------------------------------ bounds
\* population size: the loop bound 10000 of line 43, scaled down
NumSims == 3
\* scatter prefix: the 800 of slice(0, 800), line 122, scaled down
PrefixSize == 2
\* longest population handed to the functions directly
MaxPop == 3
\* significand width of the modelled floating-point accumulator
MantBits == 10

\* --------------------------------------------------------- IEEE specials
Infinity == 2^30
NegInfinity == 0 - Infinity
NaN == Infinity + 1

IsFinite(x) == x # Infinity /\ x # NegInfinity /\ x # NaN

\* x + y of two doubles, exact on finite operands
Add(x, y) ==
  IF x = NaN \/ y = NaN THEN NaN
  ELSE IF x = Infinity THEN (IF y = NegInfinity THEN NaN ELSE Infinity)
  ELSE IF x = NegInfinity THEN (IF y = Infinity THEN NaN ELSE NegInfinity)
  ELSE IF y = Infinity \/ y = NegInfinity THEN y
  ELSE x + y

\* x * y of two doubles, exact on finite operands
Mul(x, y) ==
  IF x = NaN \/ y = NaN THEN NaN
  ELSE IF IsFinite(x) /\ IsFinite(y) THEN x * y
  ELSE IF x = 0 \/ y = 0 THEN NaN
  ELSE IF (x > 0) = (y > 0) THEN Infinity ELSE NegInfinity

\* Math.max / Math.min of two doubles (NaN is contagious)
MathMax(x, y) == IF x = NaN \/ y = NaN THEN NaN ELSE IF x >= y THEN x ELSE y
MathMin(x, y) == IF x = NaN \/ y = NaN THEN NaN ELSE IF x <= y THEN x ELSE y

\* a > b of two doubles (false when either is NaN)
Gt(a, b) == a # NaN /\ b # NaN /\ a > b

\* ------------------------------------------------- floating-point rounding
\* the spacing of the representable numbers around n >= 0: the least power
\* of two q, from q on, with n / q below 2^MantBits
RECURSIVE Ulp(_, _)
Ulp(n, q) == IF n \div q < 2^MantBits THEN q ELSE Ulp(n, 2 * q)

\* round the non-negative integer n to MantBits significant bits,
\* to nearest, ties to even
RoundNat(n) ==
  LET q == Ulp(n, 1)
      lo == n \div q
      r == n % q
      up == \/ 2 * r > q
            \/ (2 * r = q /\ lo % 2 = 1)
  IN (IF up THEN lo + 1 ELSE lo) * q

Fl(x) ==
  IF ~IsFinite(x) THEN x
  ELSE IF x >= 0 THEN RoundNat(x) ELSE 0 - RoundNat(0 - x)

\* the + of a reduce callback: the sum of two doubles, rounded
fadd(a, b) == Fl(Add(a, b))

\* n / d rounded to the nearest unit (d > 0)
RoundDiv(n, d) ==
  IF ~IsFinite(n) THEN n
  ELSE IF n >= 0 THEN (2 * n + d) \div (2 * d)
  ELSE 0 - ((2 * (0 - n) + d) \div (2 * d))

\* ToFixed1 that cuts the digits off instead of rounding
ToFixed1Truncating(x, scale) ==
  IF x = Infinity \/ x = NegInfinity \/ x = NaN THEN x ELSE (10 * x) \div scale

\* Number(x.toFixed(1)) for x >= 0 given in units of 1/scale: the result in
\* tenths, nearest, the larger on a tie; Infinity prints and parses as itself
ToFixed1(x, scale) ==
  IF ~IsFinite(x) THEN x ELSE (10 * x + scale \div 2) \div scale

\* Math.sqrt of a non-negative integer, rounded down to a unit
RECURSIVE SqrtSearch(_, _, _)
SqrtSearch(x, lo, hi) ==
  IF lo >= hi THEN lo
  ELSE LET mid == (lo + hi + 1) \div 2 IN
       IF mid * mid <= x THEN SqrtSearch(x, mid, hi)
       ELSE SqrtSearch(x, lo, mid - 1)

MathSqrt(x) == IF ~IsFinite(x) THEN x ELSE SqrtSearch(x, 0, 46340)

\* ---------------------------------------------------------------- sampler
Keys == {"all", "conservative", "base", "optimistic"}

\* the object literal of lines 35-40
params ==
  [all          |-> [mean |-> 894,  std |-> 143, ms |-> 749],
   conservative |-> [mean |-> 742,  std |-> 85,  ms |-> 700],
   base         |-> [mean |-> 894,  std |-> 112, ms |-> 749],
   optimistic   |-> [mean |-> 1087, std |-> 98,  ms |-> 820]]

\* Outcomes of the two Math.random() calls of one iteration.  Math.random()
\* returns a double in [0, 1), 0 included.  u1 is named by the radius
\* sqrt(-2 ln u1) it gives, u2 by the cosine cos(2 pi u2) it gives.  The last
\* draw gives z = -7, low enough for mean + z * std to be negative.
RandomDraws ==
  { [u1 |-> "0",         u2 |-> "0"],
    [u1 |-> "exp(-1/2)", u2 |-> "0"],
    [u1 |-> "exp(-1/2)", u2 |-> "1/4"],
    [u1 |-> "exp(-49/2)", u2 |-> "1/2"] }

\* Math.sqrt(-2 * Math.log(u1)): log(0) is -Infinity, the radius Infinity
Radius(u1) ==
  CASE u1 = "0"         -> Infinity
    [] u1 = "exp(-1/2)" -> 1
    [] u1 = "exp(-49/2)" -> 7

\* Math.cos(2 * Math.PI * u2); at u2 = 1/4 the double is 6.1e-17, positive
\* and far below the resolution of every sum it enters
Cosine(u2) ==
  CASE u2 = "0"   -> [sign |-> 1, mag |-> 1]
    [] u2 = "1/4" -> [sign |-> 1, mag |-> 0]
    [] u2 = "1/2" -> [sign |-> -1, mag |-> 1]

\* line 46
BoxMuller(d) ==
  LET r == Radius(d.u1)
      c == Cosine(d.u2)
  IN IF r = Infinity
       THEN (IF c.sign > 0 THEN Infinity ELSE NegInfinity)
       ELSE r * c.sign * c.mag

\* the value of a property lookup that finds nothing
Undefined == [undefined |-> TRUE]

IsUndefined(v) == v = Undefined

\* ParamsFor with a fallback to the base case, as in ({...}[key] || base)
ParamsForWithDefault(key) ==
  IF key \in Keys THEN params[key] ELSE params["base"]

\* {...}[scenario], line 40
ParamsFor(key) == IF key \in Keys THEN params[key] ELSE Undefined

\* unary minus
Neg(x) == IF x = NaN THEN NaN
          ELSE IF x = Infinity THEN NegInfinity
          ELSE IF x = NegInfinity THEN Infinity
          ELSE 0 - x

\* Sample without the Math.max(50, .) floor on npv
SampleNoFloor(p, z) ==
  [npv |-> Add(p.mean, Mul(z, p.std)),
   ms  |-> MathMax(500, MathMin(950, Add(p.ms, Mul(z, 80))))]

\* Sample with ms driven by the negated variate
SampleAntiCorrelated(p, z) ==
  [npv |-> MathMax(500, Add(p.mean, Mul(z, p.std))),
   ms  |-> MathMax(500, MathMin(950, Add(p.ms, Mul(Neg(z), 80))))]

\* lines 47-49: one sample from the scenario parameters p and the variate z
Sample(p, z) ==
  [npv |-> MathMax(500, Add(p.mean, Mul(z, p.std))),
   ms  |-> MathMax(500, MathMin(950, Add(p.ms, Mul(z, 80))))]

\* ------------------------------------------------------------- aggregator
Sub(x, y) == Add(x, Neg(y))

\* the comparator (a, b) => a.npv - b.npv is positive; Infinity - Infinity is
\* NaN, which sort treats as 0
ComparePositive(a, b) == Gt(Sub(a.npv, b.npv), 0)

\* Array.prototype.sort is stable: x goes behind every element it does not
\* precede
RECURSIVE Insert(_, _)
Insert(sortedSeq, x) ==
  IF sortedSeq = <<>> THEN <<x>>
  ELSE LET last == sortedSeq[Len(sortedSeq)] IN
       IF ComparePositive(last, x)
         THEN Append(Insert(SubSeq(sortedSeq, 1, Len(sortedSeq) - 1), x), last)
         ELSE Append(sortedSeq, x)

\* SortByNpv with the sort left out
NoSort(sims) == sims

RECURSIVE SortByNpv(_)
SortByNpv(sims) ==
  IF sims = <<>> THEN <<>>
  ELSE Insert(SortByNpv(SubSeq(sims, 1, Len(sims) - 1)), sims[Len(sims)])

\* reduce((a, b) => a + b) from element i on, acc the sum so far
RECURSIVE ReduceSum(_, _, _)
ReduceSum(xs, i, acc) ==
  IF i > Len(xs) THEN acc ELSE ReduceSum(xs, i + 1, fadd(acc, xs[i]))

\* Math.pow(v - mean, 2), v in tenths, mean in hundredths
SquaredDeviation(v, mean) ==
  LET d == Sub(Mul(v, 10), mean) IN Mul(d, d)

\* Math.min(...vals) and Math.max(...vals)
RECURSIVE MinOf(_, _, _)
MinOf(xs, i, acc) ==
  IF i > Len(xs) THEN acc ELSE MinOf(xs, i + 1, MathMin(acc, xs[i]))

RECURSIVE MaxOf(_, _, _)
MaxOf(xs, i, acc) ==
  IF i > Len(xs) THEN acc ELSE MaxOf(xs, i + 1, MathMax(acc, xs[i]))

\* FloorIndex taken over the last index, floor(f * (len - 1))
FloorIndexOfLast(len, tenthsOfF) == ((len - 1) * tenthsOfF) \div 10

\* Math.floor(vals.length * f) for f = tenthsOfF / 10: the 0-based index
FloorIndex(len, tenthsOfF) == (len * tenthsOfF) \div 10

\* AtFraction counting the fraction from the top end
AtFractionFromTop(vals, tenthsOfF) ==
  vals[((Len(vals) * (10 - tenthsOfF)) \div 10) + 1]

\* vals[Math.floor(vals.length * f)]
AtFraction(vals, tenthsOfF) == vals[FloorIndex(Len(vals), tenthsOfF) + 1]

\* xs.filter(pred).length / xs.length * 100, in hundredths of a percent
Percent(count, len) == RoundDiv(count * 10000, len)

\* StatsThrows that also rejects a single sample
StatsThrowsBelowTwo(sims) == Len(sims) <= 1

\* the statistics memo throws exactly when reduce has no initial value and
\* no element (line 58)
StatsThrows(sims) == Len(sims) = 0

\* the value of an unset cell
NoStats ==
  [mean |-> 0, median |-> 0, p10 |-> 0, p90 |-> 0, min |-> 0, max |-> 0,
   std |-> 0, positive |-> 0, above80 |-> 0, avgMs |-> 0, msAbove75 |-> 0]

\* lines 55-84.  mean and std in hundredths, median, p10, p90, min, max in
\* tenths, positive, above80, msAbove75 in hundredths of a percent, avgMs in
\* thousandths of a percent
ComputeStats(sims) ==
  LET sorted == SortByNpv(sims)
      vals == [i \in 1..Len(sorted) |-> sorted[i].npv]
      len == Len(vals)
      mean == RoundDiv(Mul(ReduceSum(vals, 2, vals[1]), 10), len)
      devs == [i \in 1..len |-> SquaredDeviation(vals[i], mean)]
      std == MathSqrt(RoundDiv(ReduceSum(devs, 1, 0), len))
      msSeq == [i \in 1..Len(sims) |-> sims[i].ms]
  IN [mean |-> mean,
      median |-> AtFraction(vals, 5),
      p10 |-> AtFraction(vals, 1),
      p90 |-> AtFraction(vals, 9),
      min |-> MinOf(vals, 1, Infinity),
      max |-> MaxOf(vals, 1, NegInfinity),
      std |-> std,
      positive |->
        Percent(Cardinality({i \in 1..Len(sims) : Gt(sims[i].npv, 0)}),
                Len(sims)),
      above80 |->
        Percent(Cardinality({i \in 1..Len(sims) : Gt(sims[i].npv, 800)}),
                Len(sims)),
      avgMs |-> RoundDiv(Mul(ReduceSum(msSeq, 1, 0), 100), Len(sims)),
      msAbove75 |->
        Percent(Cardinality({i \in 1..Len(sims) : Gt(sims[i].ms, 750)}),
                Len(sims))]

\* --------------------------------------------------------------- histogram
\* line 88
bins == 40

\* Math.min(bins - 1, Math.floor((npv - min) / size)), size = (max - min)/bins.
\* A zero size divides 0 by 0, an infinite size divides Infinity by Infinity:
\* both give NaN, and dist[NaN]++ touches none of the bins.
BinIndex(npv, mn, mx) ==
  LET d == Sub(npv, mn)
      range == Sub(mx, mn)
  IN IF d = NaN \/ range = NaN THEN NaN
     ELSE IF range = 0 THEN (IF d = 0 THEN NaN ELSE bins - 1)
     ELSE IF range = Infinity THEN (IF d = Infinity THEN NaN ELSE 0)
     ELSE MathMin(bins - 1, (d * bins) \div range)

\* the idx of every sample, in forEach order
RECURSIVE BinIndexes(_, _, _)
BinIndexes(sims, mn, mx) ==
  IF sims = <<>> THEN <<>>
  ELSE Append(BinIndexes(SubSeq(sims, 1, Len(sims) - 1), mn, mx),
              BinIndex(sims[Len(sims)].npv, mn, mx))

\* stats.min + (i + 0.5) * size, in units of 1/800
BinCenter(i, mn, mx) ==
  LET range == Sub(mx, mn) IN
  Add(Mul(mn, 2 * bins), Mul(2 * i + 1, range))

\* the indices 0..bins-1 of dist, in order
BinIds == [j \in 1..bins |-> j - 1]

\* lines 87-101.  y = count / length * 100 is kept as the fraction num/den.
\* The filter (d) => d.y > 0 depends on the count alone and is applied to
\* the indices before the map builds the points.
BuildDistribution(sims, st) ==
  LET idx == BinIndexes(sims, st.min, st.max)
      dist == [i \in 0..(bins - 1) |->
                 Cardinality({k \in 1..Len(idx) : idx[k] = i})]
      HasMass(i) == dist[i] * 100 > 0
      kept == SelectSeq(BinIds, HasMass)
  IN [n \in 1..Len(kept) |->
        [x |-> BinCenter(kept[n], st.min, st.max),
         y |-> [num |-> dist[kept[n]] * 100, den |-> Len(sims)]]]

\* -------------------------------------------------------------- trajectory
\* the object literal of lines 105-110
factors ==
  [all          |-> <<15, 28, 42, 58, 75, 88>>,
   conservative |-> <<10, 20, 32, 45, 60, 72>>,
   base         |-> <<15, 28, 42, 58, 75, 88>>,
   optimistic   |-> <<20, 38, 55, 72, 88, 105>>]

Years == <<2026, 2027, 2028, 2029, 2030, 2031>>

\* {...}[scenario], line 110
FactorsFor(key) == IF key \in Keys THEN [curve |-> factors[key]] ELSE Undefined

\* factors[i] on undefined throws a TypeError in the first map callback
TrajectoryThrows(key) == IsUndefined(FactorsFor(key))

\* ProjectTrajectory with the two spreads exchanged
ProjectTrajectorySwappedSpread(key, st) ==
  [i \in 1..Len(Years) |->
     [year |-> Years[i],
      expected |-> ToFixed1(Mul(st.median, FactorsFor(key).curve[i]), 1000),
      p90 |-> ToFixed1(Mul(Mul(st.p90, FactorsFor(key).curve[i]), 95), 100000),
      p10 |-> ToFixed1(Mul(Mul(st.p10, FactorsFor(key).curve[i]), 105), 100000)]]

\* lines 112-117
ProjectTrajectory(key, st) ==
  [i \in 1..Len(Years) |->
     [year |-> Years[i],
      expected |-> ToFixed1(Mul(st.median, FactorsFor(key).curve[i]), 1000),
      p90 |-> ToFixed1(Mul(Mul(st.p90, FactorsFor(key).curve[i]), 105), 100000),
      p10 |-> ToFixed1(Mul(Mul(st.p10, FactorsFor(key).curve[i]), 95), 100000)]]

\* ----------------------------------------------------------------- scatter
\* Risk with the thresholds included in the upper tier
RiskInclusive(ms) ==
  IF ms >= 780 THEN "low" ELSE IF ms >= 700 THEN "med" ELSE "high"

\* line 125
Risk(ms) == IF Gt(ms, 780) THEN "low" ELSE IF Gt(ms, 700) THEN "med" ELSE "high"

\* Slice of an array that sort() has reordered in place
SliceOfSorted(sims, n) ==
  SubSeq(SortByNpv(sims), 1, IF Len(sims) < n THEN Len(sims) ELSE n)

\* simulations.slice(0, 800)
Slice(sims, n) == SubSeq(sims, 1, IF Len(sims) < n THEN Len(sims) ELSE n)

\* lines 121-127; x in tenths of a percent, y in tenths
ClassifyScatter(sims) ==
  LET head == Slice(sims, PrefixSize) IN
  [k \in 1..Len(head) |->
     [x |-> ToFixed1(Mul(head[k].ms, 100), 1000),
      y |-> ToFixed1(head[k].npv, 10),
      risk |-> Risk(head[k].ms)]]

\* ------------------------------------------------------- static displays
\* the array literal of lines 131-156, target and ml in tenths; the color
\* of a row is left out
ScenarioRows ==
  << [name |-> "Conservative", target |-> 800, ml |-> 742,  pct |-> 24,
      sims |-> 2443],
     [name |-> "Base Case",    target |-> 800, ml |-> 894,  pct |-> 51,
      sims |-> 5050],
     [name |-> "Optimistic",   target |-> 800, ml |-> 1087, pct |-> 25,
      sims |-> 2507] >>

\* the Downside tile, Number((100 - stats.positive).toFixed(1)), in tenths
\* of a percent
Downside(st) == ToFixed1(Sub(10000, st.positive), 100)

\* ------------------------------------------------------------------ state
VARIABLES
  scenario,      \* useState("all"), line 31
  simulations,   \* the memo cells of lines 34-127
  stats,
  distribution,
  trajectory,
  scatter,
  scenarios,     \* useMemo(() => [...], []), line 130
  cell           \* per memo cell "unset", "set" or "threw"; cell.input is
                 \* "given" when the caller handed a population in

vars ==
  <<scenario, simulations, stats, distribution, trajectory, scatter,
    scenarios, cell>>

MemoNames == {"simulations", "stats", "distribution", "trajectory", "scatter"}

CellNames == MemoNames \cup {"input"}

AllSet == [c \in CellNames |-> IF c = "input" THEN "unset" ELSE "set"]

AllUnset == [c \in CellNames |-> "unset"]

DrawSeqs == [1..NumSims -> RandomDraws]

\* params.mean on undefined throws a TypeError in the first iteration
GenerateThrows(key) == IsUndefined(ParamsFor(key))

\* lines 42-51, d the outcomes of the Math.random() calls
GeneratePopulation(key, d) ==
  [i \in 1..NumSims |-> Sample(ParamsFor(key), BoxMuller(d[i]))]

\* ------------------------------------------------ the Dashboard component
\* first render: scenario is "all" and every memo is computed
Init ==
  \E d \in DrawSeqs :
    /\ scenario = "all"
    /\ simulations = GeneratePopulation("all", d)
    /\ stats = ComputeStats(simulations)
    /\ distribution = BuildDistribution(simulations, stats)
    /\ trajectory = ProjectTrajectory(scenario, stats)
    /\ scatter = ClassifyScatter(simulations)
    /\ scenarios = ScenarioRows
    /\ cell = AllSet

\* SetScenario with a population memo that has no dependency: the scenario
\* changes, the population and what is computed from it alone stay
SetScenarioKeepPopulation(key) ==
  IF key = scenario THEN UNCHANGED vars
  ELSE /\ scenario' = key
       /\ trajectory' = ProjectTrajectory(scenario', stats)
       /\ UNCHANGED <<simulations, stats, distribution, scatter, scenarios, cell>>

\* onChange of the <select> (line 194) and the render it causes: setState
\* with the current value bails out, any other value changes the dependency
\* of simulations and with it every memo downstream
SetScenario(key) ==
  IF key = scenario
    THEN UNCHANGED vars
    ELSE \E d \in DrawSeqs :
           /\ scenario' = key
           /\ simulations' = GeneratePopulation(key, d)
           /\ stats' = ComputeStats(simulations')
           /\ distribution' = BuildDistribution(simulations', stats')
           /\ trajectory' = ProjectTrajectory(scenario', stats')
           /\ scatter' = ClassifyScatter(simulations')
           /\ UNCHANGED <<scenarios, cell>>

\* the option values of lines 197-200
Next == \E key \in Keys : SetScenario(key)

Spec == Init /\ [][Next]_vars

\* --------------------------------------- the functions on arbitrary inputs
AnyKeys == Keys \cup {"extreme"}

\* well-formed samples, each one the sampler can produce
SampleInputs ==
  { Sample(params["conservative"], 0),
    Sample(params["base"], 0),
    Sample(params["optimistic"], 0),
    Sample(params["conservative"], -3),
    Sample(params["optimistic"], Infinity) }

Populations == UNION { [1..n -> SampleInputs] : n \in 0..MaxPop }

\* a scenario key and either no population yet or one handed in
InitFn ==
  /\ scenario \in AnyKeys
  /\ \/ simulations = <<>> /\ cell = AllUnset
     \/ simulations \in Populations /\ cell = [AllUnset EXCEPT !.input = "given"]
  /\ stats = NoStats
  /\ distribution = <<>>
  /\ trajectory = <<>>
  /\ scatter = <<>>
  /\ scenarios = ScenarioRows

HasPopulation == cell.simulations = "set" \/ cell.input = "given"

\* generatePopulation(scenario), the first call of a pipeline: a population
\* of its own, which replaces the one handed in; a throw leaves everything
\* as it was
CallGeneratePopulation ==
  /\ \A c \in MemoNames : cell[c] = "unset"
  /\ IF GenerateThrows(scenario)
       THEN /\ cell' = [cell EXCEPT !.simulations = "threw"]
            /\ UNCHANGED <<simulations, stats, distribution, trajectory, scatter>>
       ELSE \E d \in DrawSeqs :
              /\ simulations' = GeneratePopulation(scenario, d)
              /\ cell' = [AllUnset EXCEPT !.simulations = "set"]
              /\ UNCHANGED <<stats, distribution, trajectory, scatter>>
  /\ UNCHANGED <<scenario, scenarios>>

CallComputeStats ==
  /\ HasPopulation
  /\ cell.stats = "unset"
  /\ IF StatsThrows(simulations)
       THEN /\ cell' = [cell EXCEPT !.stats = "threw"]
            /\ UNCHANGED stats
       ELSE /\ stats' = ComputeStats(simulations)
            /\ cell' = [cell EXCEPT !.stats = "set"]
  /\ UNCHANGED <<scenarios, scenario, simulations, distribution, trajectory, scatter>>

CallBuildDistribution ==
  /\ cell.stats = "set"
  /\ cell.distribution = "unset"
  /\ distribution' = BuildDistribution(simulations, stats)
  /\ cell' = [cell EXCEPT !.distribution = "set"]
  /\ UNCHANGED <<scenarios, scenario, simulations, stats, trajectory, scatter>>

CallProjectTrajectory ==
  /\ cell.stats = "set"
  /\ cell.trajectory = "unset"
  /\ IF TrajectoryThrows(scenario)
       THEN /\ cell' = [cell EXCEPT !.trajectory = "threw"]
            /\ UNCHANGED trajectory
       ELSE /\ trajectory' = ProjectTrajectory(scenario, stats)
            /\ cell' = [cell EXCEPT !.trajectory = "set"]
  /\ UNCHANGED <<scenarios, scenario, simulations, stats, distribution, scatter>>

CallClassifyScatter ==
  /\ HasPopulation
  /\ cell.scatter = "unset"
  /\ scatter' = ClassifyScatter(simulations)
  /\ cell' = [cell EXCEPT !.scatter = "set"]
  /\ UNCHANGED <<scenarios, scenario, simulations, stats, distribution, trajectory>>

NextFn ==
  \/ CallGeneratePopulation
  \/ CallComputeStats
  \/ CallBuildDistribution
  \/ CallProjectTrajectory
  \/ CallClassifyScatter

SpecFn == InitFn /\ [][NextFn]_vars

\* ================================================================= claims

Range(f) == {f[i] : i \in DOMAIN f}

\* every reordering of the sequence p
Reorderings(p) ==
  LET n == Len(p) IN
  { [i \in 1..n |-> p[f[i]]] : f \in {g \in [1..n -> 1..n] : Range(g) = 1..n} }

Min2(a, b) == IF a < b THEN a ELSE b

RECURSIVE SumNum(_, _)
SumNum(d, i) == IF i > Len(d) THEN 0 ELSE d[i].y.num + SumNum(d, i + 1)

\* ----------------------------------------------------------------------- C1
\* C1: whatever the scenario and the random draws, the population has
\* exactly NumSims samples (10,000 in the source), every npv is at least 50
\* and every ms lies in [0.5, 0.95].
C1_PopulationWellFormed ==
  /\ Len(simulations) = NumSims
  /\ \A i \in 1..Len(simulations) :
       /\ simulations[i].npv # NaN
       /\ simulations[i].npv >= 500
       /\ simulations[i].ms # NaN
       /\ simulations[i].ms >= 500
       /\ simulations[i].ms <= 950

\* a conservative population in which the floor of npv, the floor of ms and
\* the cap of ms have all acted
C1_Witness ==
  /\ scenario = "conservative"
  /\ \E i \in 1..Len(simulations) :
       simulations[i].npv = 500 /\ simulations[i].ms = 500
  /\ \E j \in 1..Len(simulations) : simulations[j].ms = 950

HasRank(q, k) ==
  /\ Cardinality({i \in 1..Len(simulations) : simulations[i].npv < q}) <= k
  /\ Cardinality({i \in 1..Len(simulations) : simulations[i].npv <= q}) > k

\* C3: for a non-empty population min <= p10 <= median <= p90 <= max, and
\* p10, median, p90 are the values of rank floor(0.1 len), floor(0.5 len),
\* floor(0.9 len) in ascending order.
C3_OrderStatistics ==
  cell.stats = "set" =>
    /\ stats.min <= stats.p10
    /\ stats.p10 <= stats.median
    /\ stats.median <= stats.p90
    /\ stats.p90 <= stats.max
    /\ HasRank(stats.p10, Len(simulations) \div 10)
    /\ HasRank(stats.median, Len(simulations) \div 2)
    /\ HasRank(stats.p90, (9 * Len(simulations)) \div 10)
    /\ HasRank(stats.min, 0)
    /\ HasRank(stats.max, Len(simulations) - 1)

\* statistics of a population that was not in ascending order and whose
\* p10, median and p90 differ
C3_Witness ==
  /\ cell.stats = "set"
  /\ Len(simulations) >= 3
  /\ simulations[1].npv > simulations[2].npv
  /\ stats.p10 < stats.median
  /\ stats.median < stats.p90

\* ----------------------------------------------------------------------- C4
\* C4 as stated: every field of the statistics is the same for every
\* reordering of the population.
C4_AllFieldsPermutationInvariant ==
  cell.stats = "set" =>
    \A q \in Reorderings(simulations) : ComputeStats(q) = stats

\* C4 amended: every field except avgMs is the same for every reordering of
\* the population (avgMs is a floating-point sum taken in sample order).
C4_PermutationInvariantExceptAvgMs ==
  cell.stats = "set" =>
    \A q \in Reorderings(simulations) :
      [ComputeStats(q) EXCEPT !.avgMs = 0] = [stats EXCEPT !.avgMs = 0]

\* a population with a reordering that changes avgMs and nothing else
C4_Witness ==
  /\ cell.stats = "set"
  /\ \E q \in Reorderings(simulations) :
       /\ q # simulations
       /\ ComputeStats(q).avgMs # stats.avgMs

\* ----------------------------------------------------------------------- C5
\* C5: when max > min every sample is counted in exactly one bin: the
\* probabilityPercent of the emitted bins sum to 100 and none exceeds 100.
C5_HistogramSumsTo100 ==
  Gt(stats.max, stats.min) =>
    /\ SumNum(distribution, 1) = 100 * Len(simulations)
    /\ \A i \in 1..Len(distribution) :
         distribution[i].y.num <= 100 * distribution[i].y.den

\* ----------------------------------------------------------------------- C6
\* r is x (in units of 1/scale) rounded to one decimal, the larger on a tie
IsRounded1(r, x, scale) ==
  IF x = Infinity \/ x = NaN THEN r = x
  ELSE /\ 2 * (10 * x - r * scale) < scale
       /\ 2 * (r * scale - 10 * x) <= scale

\* C6: the trajectory has the 6 points 2026..2031 in order with
\* expected = round1(median * f), p90 = round1(p90 * f * 1.05),
\* p10 = round1(p10 * f * 0.95), f the factor of the selected scenario; for
\* base with median 89.4, p10 74.2, p90 108.7 the first point is
\* 13.4, 17.1, 10.6.
C6_TrajectoryFormula ==
  cell.trajectory = "set" =>
    /\ Len(trajectory) = 6
    /\ \A i \in 1..6 :
         LET f == factors[scenario][i] IN
         /\ trajectory[i].year = 2025 + i
         /\ IsRounded1(trajectory[i].expected, Mul(stats.median, f), 1000)
         /\ IsRounded1(trajectory[i].p90, Mul(stats.p90, f * 105), 100000)
         /\ IsRounded1(trajectory[i].p10, Mul(stats.p10, f * 95), 100000)
    /\ (scenario = "base" /\ stats.median = 894 /\ stats.p10 = 742
          /\ stats.p90 = 1087) =>
         /\ trajectory[1].expected = 134
         /\ trajectory[1].p90 = 171
         /\ trajectory[1].p10 = 106

\* the trajectory of the example: base, median 89.4, p10 74.2, p90 108.7
C6_Witness ==
  /\ cell.trajectory = "set"
  /\ scenario = "base"
  /\ stats.median = 894
  /\ stats.p10 = 742
  /\ stats.p90 = 1087

C8_ScatterIsPrefix ==
  cell.scatter = "set" =>
    /\ Len(scatter) = Min2(PrefixSize, Len(simulations))
    /\ \A k \in 1..Len(scatter) :
         /\ IsRounded1(scatter[k].y, simulations[k].npv, 10)
         /\ IsRounded1(scatter[k].x, simulations[k].ms * 100, 1000)

\* a scatter cut from a longer population that is not in ascending order
C8_Witness ==
  /\ cell.scatter = "set"
  /\ Len(scatter) >= 2
  /\ Len(simulations) > Len(scatter)
  /\ simulations[1].npv > simulations[2].npv

\* ----------------------------------------------------------------------- C9
\* C9: when every sample has the same value (max = min) building the
\* histogram fails instead of returning a histogram.  Stated for a finite
\* value, so that an infinite npv plays no part in it.
C9_DegenerateRangeFails ==
  (stats.max = stats.min /\ IsFinite(stats.max)) =>
    cell.distribution = "threw"

\* ---------------------------------------------------------------------- C10
\* C10: computing the statistics throws on an empty population and on no
\* other population.
C10_StatsFailsIffEmpty ==
  cell.stats # "unset" => (cell.stats = "threw" <=> Len(simulations) = 0)

\* the empty population, after the call has thrown
C10_Witness ==
  /\ cell.input = "given"
  /\ simulations = <<>>
  /\ cell.stats = "threw"

\* ---------------------------------------------------------------------- C11
\* the populations the sampler can generate for the scenario key
C11_Generated(key) == {GeneratePopulation(key, d) : d \in DrawSeqs}

\* the four derived values are those of the population pop under key
C11_DerivedFrom(pop, key, st, dist, traj, scat) ==
  /\ st = ComputeStats(pop)
  /\ dist = BuildDistribution(pop, st)
  /\ traj = ProjectTrajectory(key, st)
  /\ scat = ClassifyScatter(pop)

\* C11: after any sequence of scenario selections the statistics, the
\* histogram, the trajectory and the scatter are all computed from the one
\* population held, that population is one the sampler generates with the
\* parameters of the selected scenario, and the trajectory uses the
\* selected scenario's factors.  Holding in every reachable state, it holds
\* after every step that changes the scenario: the population then held is
\* one generated for the new scenario.
C11_OnePopulationOfCurrentScenario ==
  /\ scenario \in Keys
  /\ simulations \in C11_Generated(scenario)
  /\ C11_DerivedFrom(simulations, scenario, stats, distribution,
                     trajectory, scatter)

\* the optimistic scenario selected, its trajectory on the optimistic
\* factors, and a population only the optimistic parameters generate
C11_Witness ==
  /\ scenario = "optimistic"
  /\ stats.median = 1087
  /\ trajectory[6].expected = 1141
  /\ simulations \notin C11_Generated("all")

\* ---------------------------------------------------------------------- C12
\* C12: no sample comes from a draw with u1 = 0: every population is what
\* the sampler generates from draws whose u1 is not 0, so every variate z
\* is finite.
C12_NoZeroDrawReachesLog ==
  \E d \in DrawSeqs :
    /\ \A i \in 1..NumSims : d[i].u1 # "0"
    /\ simulations = GeneratePopulation(scenario, d)

\* ---------------------------------------------------------------------- C13
\* the npv of the samples in ascending order
C13_Ascending(sims) ==
  CHOOSE q \in Reorderings([i \in 1..Len(sims) |-> sims[i].npv]) :
    \A i \in 1..(Len(q) - 1) : q[i] <= q[i + 1]

\* C13: p10, median and p90 are the elements at the 0-based indices
\* floor(0.1 * len), floor(0.5 * len) and floor(0.9 * len) of the values in
\* ascending order, elements of the population and not interpolated; for
\* len = 10,000 the indices are 1000, 5000 and 9000.
C13_PercentileAtFloorIndex ==
  /\ cell.stats = "set" =>
       LET asc == C13_Ascending(simulations)
           len == Len(asc)
       IN /\ stats.p10 = asc[(len \div 10) + 1]
          /\ stats.median = asc[(len \div 2) + 1]
          /\ stats.p90 = asc[((9 * len) \div 10) + 1]
  /\ FloorIndex(10000, 1) = 1000
  /\ FloorIndex(10000, 5) = 5000
  /\ FloorIndex(10000, 9) = 9000

\* two samples of different value: the median is the larger one, where an
\* interpolating median is the midpoint
C13_Witness ==
  /\ cell.stats = "set"
  /\ Len(simulations) = 2
  /\ simulations[1].npv # simulations[2].npv
  /\ stats.median = stats.max
  /\ stats.p10 = stats.min

\* ---------------------------------------------------------------------- C14
\* the bin index the histogram memo computes for sample i
C14_Idx(i) == BinIndex(simulations[i].npv, stats.min, stats.max)

\* C14: when max > min every sample's bin index lies in 0..39, the maximum
\* sample in bin 39 and the minimum sample in bin 0, and the histogram is
\* exactly the occupied bins in ascending order of index, bin b with center
\* min + (b + 0.5) * width (x counted in 1/(2 * bins) of a tenth).
C14_BinsCoverEverySample ==
  Gt(stats.max, stats.min) =>
    LET n == Len(simulations)
        occupied == {C14_Idx(i) : i \in 1..n}
    IN /\ \A i \in 1..n :
            /\ C14_Idx(i) \in 0..(bins - 1)
            /\ simulations[i].npv = stats.max => C14_Idx(i) = bins - 1
            /\ simulations[i].npv = stats.min => C14_Idx(i) = 0
       /\ Len(distribution) = Cardinality(occupied)
       /\ \A k \in 1..(Len(distribution) - 1) :
            distribution[k].x < distribution[k + 1].x
       /\ {distribution[k].x : k \in 1..Len(distribution)} =
            {2 * bins * stats.min + (2 * b + 1) * (stats.max - stats.min) :
               b \in occupied}

\* ---------------------------------------------------------------------- C15
\* C15: within the population held, a sample of greater value never has a
\* smaller retention, and a sample of greater retention never has a smaller
\* value.
C15_ValueAndRetentionCoMonotone ==
  \A a, b \in 1..Len(simulations) :
    /\ Gt(simulations[a].npv, simulations[b].npv) =>
         simulations[a].ms >= simulations[b].ms
    /\ Gt(simulations[a].ms, simulations[b].ms) =>
         simulations[a].npv >= simulations[b].npv

\* a population with three levels of value and of retention, the lowest on
\* both floors and the highest on the cap of ms
C15_Witness ==
  \E a, b, c \in 1..Len(simulations) :
    /\ simulations[a].npv > simulations[b].npv
    /\ simulations[b].npv > simulations[c].npv
    /\ simulations[a].ms = 950
    /\ simulations[a].ms > simulations[b].ms
    /\ simulations[b].ms > simulations[c].ms
    /\ simulations[c].ms = 500
    /\ simulations[c].npv = 500

\* ---------------------------------------------------------------------- C16
\* C16: every row of the static scenario table has an ml above its target
\* of 80, as the validation text under the table says.
C16_AllScenariosExceedTarget ==
  \A i \in 1..Len(scenarios) :
    /\ scenarios[i].target = 800
    /\ scenarios[i].ml > scenarios[i].target

\* ---------------------------------------------------------------------- C17
\* C17: every trajectory point has p10 <= expected <= p90, and the p10,
\* expected and p90 series are each non-decreasing from 2026 to 2031.
C17_TrajectoryOrdered ==
  /\ \A i \in 1..Len(trajectory) :
       /\ trajectory[i].p10 # NaN
       /\ trajectory[i].expected # NaN
       /\ trajectory[i].p90 # NaN
       /\ trajectory[i].p10 <= trajectory[i].expected
       /\ trajectory[i].expected <= trajectory[i].p90
  /\ \A i \in 1..(Len(trajectory) - 1) :
       /\ trajectory[i].p10 <= trajectory[i + 1].p10
       /\ trajectory[i].expected <= trajectory[i + 1].expected
       /\ trajectory[i].p90 <= trajectory[i + 1].p90

\* six points of finite values with the three series apart in 2026 and the
\* expected series rising
C17_Witness ==
  /\ Len(trajectory) = 6
  /\ IsFinite(trajectory[6].p90)
  /\ trajectory[1].p10 < trajectory[1].expected
  /\ trajectory[1].expected < trajectory[1].p90
  /\ trajectory[1].expected < trajectory[6].expected

\* ---------------------------------------------------------------------- C18
\* C18: whatever the scenario and the population, the positive statistic
\* is 100 percent, and the Downside tile computed from it shows 0.
C18_NoDownside ==
  /\ stats.positive = 10000
  /\ Downside(stats) = 0

\* scenario "all" with a sample on the floor of 50, drawn with a variate
\* for which mean + z * std is below 0
C18_Witness ==
  /\ scenario = "all"
  /\ \E i \in 1..Len(simulations) :
       simulations[i].npv = 500 /\ simulations[i].ms = 500
  /\ stats.positive = 10000

====
